---- MODULE Spec2Model ----
(***************************************************************************)
(* jwt-pizza-service: the authentication middleware (authRouter), the user *)
(* router and the franchise router, as a state machine.                    *)
(*                                                                         *)
(* Every request is an async handler chain.  A request stops at each       *)
(* `await` of a DB call; the DB call executes atomically and the code that *)
(* follows it up to the next `await` touches only the request itself, so   *)
(* one action is "the pending DB call plus its continuation".  jwt.sign    *)
(* reads the clock, so it is a step of its own.                            *)
(***************************************************************************)
EXTENDS Integers, Sequences, FiniteSets, TLC

\* ---------------------------------------------------------------- bounds
MaxTime == 1          \* the clock (seconds, the iat claim) runs 0..MaxTime
MaxRequests == 2      \* requests started in one behaviour

Reqs == {"r1", "r2"}  \* requests in flight at the same time

\* ---------------------------------------------------------------- values
Diner == "diner"
Franchisee == "franchisee"
Admin == "admin"

jwtSecret == "secret"

\* A user object as the DB returns it (password is never returned).
NullUser == [id |-> 0, name |-> "", email |-> "", roles |-> {}, iat |-> 0]

\* A string that is not a JWT (a scheme word of a header): no payload, and
\* the text in place of the signature.
Word(s) == [payload |-> NullUser, sig |-> s]

\* null / undefined where a token string is expected
NoToken == Word("")

\* A token some other party signed: payload of the administrator, wrong key.
ForgedToken ==
    [payload |-> [id |-> 1, name |-> "admin", email |-> "a@jwt.com",
                  roles |-> {[role |-> Admin]}, iat |-> 0],
     sig |-> "forged"]

\* A token this service signed before its secret was changed: its Session
\* Record is still in the store, and jwt.verify throws on it.
StaleToken ==
    [payload |-> [id |-> 1, name |-> "admin", email |-> "a@jwt.com",
                  roles |-> {[role |-> Admin]}, iat |-> 0],
     sig |-> "old secret"]

NullFranchise == [id |-> 0, admins |-> {}]

\* A request body; "" is a field the body does not have.
NoBody == [name |-> "", email |-> "", password |-> "", roles |-> {}, admins |-> {}]

\* jwt.sign(user, secret): the payload is the user object plus iat, the
\* clock in seconds; HS256 is deterministic, so the same payload in the same
\* second is the same string.
sign(user, secret, clock) ==
    [payload |-> [user EXCEPT !.iat = clock], sig |-> secret]

\* jwt.verify(token, secret): the payload, or a throw (FALSE here).
verifies(token, secret) == token.sig = secret

\* readAuthToken: authHeader.split(' ')[1].  A header is the sequence of its
\* blank-separated parts; <<>> is an absent (or empty) header.
readAuthToken(header) ==
    IF Len(header) > 0
    THEN IF Len(header) >= 2 THEN header[2] ELSE NoToken
    ELSE NoToken

\* req.user.isRole(role)
isRole(user, role) == \E r \in user.roles : r.role = role

\* ----------------------------------------------------------------- state
VARIABLES
    users,       \* DB: id -> [name, email, password, roles]
    sessions,    \* DB: the tokens that have a Session Record
    franchises,  \* DB: id -> [admins], the ids of the franchise's admins
    stores,      \* DB: the store rows, [franchiseId, id]
    now,         \* the clock, in seconds
    req,         \* the requests in flight, and their responses
    nreq,        \* requests started so far
    issued,      \* tokens handed out in responses (what a client can present)
    revoked      \* history: tokens logged out and not recorded again since

vars == <<users, sessions, franchises, stores, now, req, nreq, issued, revoked>>

IdleReq ==
    [pc |-> "idle", route |-> "", header |-> <<>>, userId |-> 0,
     franchiseId |-> 0, storeId |-> 0, body |-> NoBody, user |-> NullUser,
     status |-> 0, obj |-> NullUser, token |-> NoToken,
     franchise |-> NullFranchise, result |-> {},
     nexts |-> 0,       \* how often setAuthUser has called next()
     threw |-> FALSE]   \* DB.isLoggedIn rejected

\* The row of a user as an object: id, name, email, roles (no password).
userObject(rows, id) ==
    [id |-> id, name |-> rows[id].name, email |-> rows[id].email,
     roles |-> rows[id].roles, iat |-> 0]

InitUsers ==
    (1 :> [name |-> "admin", email |-> "a@jwt.com", password |-> "admin",
           roles |-> {[role |-> Admin]}])
        @@ (2 :> [name |-> "fran", email |-> "f@jwt.com", password |-> "fran",
                  roles |-> {[role |-> Franchisee]}])

\* The tokens of the two logins the store already holds, signed in second 0.
InitTokens == {sign(userObject(InitUsers, id), jwtSecret, 0) : id \in DOMAIN InitUsers}

\* The store is persistent: the service runs on the rows it holds (the
\* default administrator, a franchisee, the franchise it runs and its store),
\* with both users logged in and one Session Record of a stale token.
Init ==
    /\ users = InitUsers
    /\ sessions = InitTokens \cup {StaleToken}
    /\ franchises = (1 :> [admins |-> {2}])
    /\ stores = {[franchiseId |-> 1, id |-> 1]}
    /\ now = 0
    /\ req = [r \in Reqs |-> IdleReq]
    /\ nreq = 0
    /\ issued = InitTokens
    /\ revoked = {}

\* -------------------------------------------------------------------- DB
nextUserId == Cardinality(DOMAIN users) + 1

DB_addUser(user) ==
    users' = users @@ (nextUserId :> [name |-> user.name, email |-> user.email,
                                      password |-> user.password, roles |-> user.roles])

DB_getUser(email, password) ==
    {id \in DOMAIN users : users[id].email = email /\ users[id].password = password}

DB_updateUser(userId, name, email, password) ==
    users' = [users EXCEPT ![userId] =
                [@ EXCEPT !.name = IF name # "" THEN name ELSE @,
                          !.email = IF email # "" THEN email ELSE @,
                          !.password = IF password # "" THEN password ELSE @]]

DB_isLoggedIn(token) == token \in sessions

DB_loginUser(userId, token) == sessions' = sessions \cup {token}

DB_logoutUser(token) == sessions' = sessions \ {token}

DB_getFranchise(id) ==
    IF id \in DOMAIN franchises
    THEN [id |-> id, admins |-> franchises[id].admins]
    ELSE NullFranchise

DB_getUserFranchises(userId) ==
    {f \in DOMAIN franchises : userId \in franchises[f].admins}

\* The ids a request can name: those of the rows, and one that has no row.
Fresh(ids) == CHOOSE n \in 1..(Cardinality(ids) + 1) : n \notin ids

nextFranchiseId == Fresh(DOMAIN franchises)

DB_createFranchise(franchise) ==
    franchises' = franchises @@ (nextFranchiseId :> [admins |->
        {id \in DOMAIN users : users[id].email \in franchise.admins}])

DB_deleteFranchise(franchiseId) ==
    /\ franchises' = [f \in DOMAIN franchises \ {franchiseId} |-> franchises[f]]
    /\ stores' = {s \in stores : s.franchiseId # franchiseId}

nextStoreId == Fresh({s.id : s \in stores})

DB_createStore(franchiseId, store) ==
    stores' = stores \cup {[franchiseId |-> franchiseId, id |-> nextStoreId]}

DB_deleteStore(franchiseId, storeId) ==
    stores' = stores \ {[franchiseId |-> franchiseId, id |-> storeId]}

\* ------------------------------------------------------------ middleware
Respond(rq, status) == [rq EXCEPT !.pc = "done", !.status = status]

Await(rq, call) == [rq EXCEPT !.pc = call]

setAuthUser_noSessionCheck(token, loggedIn) ==
    IF token # NoToken
    THEN IF verifies(token, jwtSecret) THEN token.payload ELSE NullUser
    ELSE NullUser

\* setAuthUser, from the answer of DB.isLoggedIn on: the value of req.user.
setAuthUser(token, loggedIn) ==
    IF token # NoToken
    THEN IF loggedIn
         THEN IF verifies(token, jwtSecret) THEN token.payload ELSE NullUser
         ELSE NullUser
    ELSE NullUser

authenticateToken_always(rq) == TRUE

authenticateToken_tokenPresent(rq) == readAuthToken(rq.header) # NoToken

\* authRouter.authenticateToken: TRUE when it calls next().
authenticateToken(rq) == rq.user # NullUser

register_noPasswordCheck(rq) ==
    IF rq.body.name = "" \/ rq.body.email = ""
    THEN Respond(rq, 400)
    ELSE Await(rq, "addUser")

\* --------------------------------------- handlers, up to their first await
register(rq) ==
    IF rq.body.name = "" \/ rq.body.email = "" \/ rq.body.password = ""
    THEN Respond(rq, 400)
    ELSE Await(rq, "addUser")

login(rq) == Await(rq, "getUser")

\* clearAuth
clearAuth(rq) ==
    IF readAuthToken(rq.header) # NoToken
    THEN Await(rq, "logoutUser")
    ELSE Respond(rq, 200)

logout(rq) ==
    IF ~authenticateToken(rq) THEN Respond(rq, 401) ELSE clearAuth(rq)

getMe(rq) ==
    IF ~authenticateToken(rq) THEN Respond(rq, 401) ELSE Respond(rq, 200)

updateUserDenied_adminOnly(user, userId) == ~isRole(user, Admin)

updateUserDenied(user, userId) == user.id # userId /\ ~isRole(user, Admin)

updateUser(rq) ==
    IF ~authenticateToken(rq) THEN Respond(rq, 401)
    ELSE IF updateUserDenied(rq.user, rq.userId) THEN Respond(rq, 403)
    ELSE Await(rq, "updateUser")

getUserFranchises_anyAuthenticated(rq) ==
    IF ~authenticateToken(rq) THEN Respond(rq, 401)
    ELSE Await(rq, "getUserFranchises")

getUserFranchises(rq) ==
    IF ~authenticateToken(rq) THEN Respond(rq, 401)
    ELSE IF rq.user.id = rq.userId \/ isRole(rq.user, Admin)
         THEN Await(rq, "getUserFranchises")
         ELSE Respond(rq, 200)

createFranchise_listedAdmin(rq) ==
    IF ~authenticateToken(rq) THEN Respond(rq, 401)
    ELSE IF ~isRole(rq.user, Admin) /\ rq.user.email \notin rq.body.admins
         THEN Respond(rq, 403)
    ELSE Await(rq, "createFranchise")

createFranchise(rq) ==
    IF ~authenticateToken(rq) THEN Respond(rq, 401)
    ELSE IF ~isRole(rq.user, Admin) THEN Respond(rq, 403)
    ELSE Await(rq, "createFranchise")

deleteFranchise(rq) == Await(rq, "deleteFranchise")

createStore(rq) ==
    IF ~authenticateToken(rq) THEN Respond(rq, 401) ELSE Await(rq, "getFranchise")

deleteStore(rq) ==
    IF ~authenticateToken(rq) THEN Respond(rq, 401) ELSE Await(rq, "getFranchise")

storeDenied_adminOnly(user, franchise) ==
    franchise = NullFranchise \/ ~isRole(user, Admin)

storeDenied_noNullCheck(user, franchise) ==
    ~isRole(user, Admin) /\ user.id \notin franchise.admins

\* The condition of the 403 of both store handlers.
storeDenied(user, franchise) ==
    franchise = NullFranchise
        \/ (~isRole(user, Admin) /\ user.id \notin franchise.admins)

\* next() of setAuthUser: the route's middleware and handler.
Route(rq) ==
    CASE rq.route = "register" -> register(rq)
      [] rq.route = "login" -> login(rq)
      [] rq.route = "logout" -> logout(rq)
      [] rq.route = "getMe" -> getMe(rq)
      [] rq.route = "updateUser" -> updateUser(rq)
      [] rq.route = "getUserFranchises" -> getUserFranchises(rq)
      [] rq.route = "createFranchise" -> createFranchise(rq)
      [] rq.route = "deleteFranchise" -> deleteFranchise(rq)
      [] rq.route = "createStore" -> createStore(rq)
      [] rq.route = "deleteStore" -> deleteStore(rq)

setAuthUserNext_never(rq) == Respond(rq, 500)

\* setAuthUser, last line: next().
setAuthUserNext(rq) == Route([rq EXCEPT !.nexts = @ + 1])

\* ---------------------------------------------------------------- inputs
\* Authorization headers: absent, or Bearer and a token handed out before.
AuthHeaders == {<<>>} \cup {<<Word("Bearer"), t>> : t \in issued}

\* Every shape of the header: also a forged and a stale token, another
\* scheme word before the token, the bare token, and the scheme word alone.
Headers ==
    AuthHeaders \cup {<<Word("Bearer"), ForgedToken>>, <<Word("Bearer"), StaleToken>>}
        \cup {<<Word("Basic"), t>> : t \in issued}
        \cup {<<t>> : t \in issued} \cup {<<Word("Bearer")>>}

RegisterBodies ==
    {[NoBody EXCEPT !.name = "d", !.email = "d@jwt.com", !.password = "d"],
     [NoBody EXCEPT !.name = "d", !.email = "d@jwt.com", !.password = "d",
                    !.roles = {[role |-> Admin]}],
     [NoBody EXCEPT !.email = "d@jwt.com", !.password = "d"],
     [NoBody EXCEPT !.name = "d", !.password = "d"],
     [NoBody EXCEPT !.name = "d", !.email = "d@jwt.com"]}

LoginBodies ==
    {[NoBody EXCEPT !.email = "a@jwt.com", !.password = "admin"],
     [NoBody EXCEPT !.email = "f@jwt.com", !.password = "fran"],
     [NoBody EXCEPT !.email = "d@jwt.com", !.password = "d"],
     [NoBody EXCEPT !.email = "a@jwt.com", !.password = "wrong"]}

UpdateBodies ==
    {NoBody,
     [NoBody EXCEPT !.name = "z", !.password = "zz", !.roles = {[role |-> Admin]}]}

FranchiseBodies ==
    {[NoBody EXCEPT !.name = "pizzaPocket", !.admins = {"f@jwt.com"}],
     [NoBody EXCEPT !.name = "pizzaPocket", !.admins = {"a@jwt.com"}],
     [NoBody EXCEPT !.name = "pizzaPocket"]}

StoreBodies == {[NoBody EXCEPT !.name = "SLC"]}

UserIds == DOMAIN users \cup {nextUserId}
FranchiseIds == DOMAIN franchises \cup {nextFranchiseId}
StoreIds == {s.id : s \in stores} \cup {nextStoreId}

\* --------------------------------------------------------------- actions
\* A request arrives: setAuthUser runs up to `await DB.isLoggedIn(token)`,
\* or, without a token, straight through next().
Arrive(r, rq) ==
    /\ req[r].pc \in {"idle", "done"}
    /\ nreq < MaxRequests
    /\ nreq' = nreq + 1
    /\ req' = [req EXCEPT ![r] =
                 IF readAuthToken(rq.header) # NoToken
                 THEN Await(rq, "isLoggedIn")
                 ELSE setAuthUserNext(rq)]
    /\ UNCHANGED <<users, sessions, franchises, stores, now, issued, revoked>>

StartRegister(r) ==
    \E b \in RegisterBodies :
        Arrive(r, [IdleReq EXCEPT !.route = "register", !.body = b])

StartLogin(r) ==
    \E b \in LoginBodies : Arrive(r, [IdleReq EXCEPT !.route = "login", !.body = b])

StartLogout(r) ==
    \E h \in AuthHeaders : Arrive(r, [IdleReq EXCEPT !.route = "logout", !.header = h])

StartGetMe(r, headers) ==
    \E h \in headers : Arrive(r, [IdleReq EXCEPT !.route = "getMe", !.header = h])

StartUpdateUser(r) ==
    \E h \in AuthHeaders, u \in UserIds, b \in UpdateBodies :
        Arrive(r, [IdleReq EXCEPT !.route = "updateUser", !.header = h,
                                  !.userId = u, !.body = b])

StartGetUserFranchises(r) ==
    \E h \in AuthHeaders, u \in UserIds :
        Arrive(r, [IdleReq EXCEPT !.route = "getUserFranchises", !.header = h,
                                  !.userId = u])

StartCreateFranchise(r) ==
    \E h \in AuthHeaders, b \in FranchiseBodies :
        Arrive(r, [IdleReq EXCEPT !.route = "createFranchise", !.header = h,
                                  !.body = b])

StartDeleteFranchise(r) ==
    \E h \in AuthHeaders, f \in FranchiseIds :
        Arrive(r, [IdleReq EXCEPT !.route = "deleteFranchise", !.header = h,
                                  !.franchiseId = f])

StartCreateStore(r) ==
    \E h \in AuthHeaders, f \in FranchiseIds, b \in StoreBodies :
        Arrive(r, [IdleReq EXCEPT !.route = "createStore", !.header = h,
                                  !.franchiseId = f, !.body = b])

StartDeleteStore(r) ==
    \E h \in AuthHeaders, f \in FranchiseIds, s \in StoreIds :
        Arrive(r, [IdleReq EXCEPT !.route = "deleteStore", !.header = h,
                                  !.franchiseId = f, !.storeId = s])

\* `await DB.isLoggedIn(token)` and the rest of setAuthUser, then next().
IsLoggedIn(r) ==
    /\ req[r].pc = "isLoggedIn"
    /\ LET token == readAuthToken(req[r].header)
           user == setAuthUser(token, DB_isLoggedIn(token))
       IN req' = [req EXCEPT ![r] = setAuthUserNext([req[r] EXCEPT !.user = user])]
    /\ UNCHANGED <<users, sessions, franchises, stores, now, nreq, issued, revoked>>

setAuthUserCatch_rethrow(rq) == Respond(rq, 500)

\* setAuthUser, `catch { req.user = null; }`, then next().
setAuthUserCatch(rq) == setAuthUserNext([rq EXCEPT !.user = NullUser])

\* `await DB.isLoggedIn(token)` rejects (the store is unreachable).
IsLoggedInThrows(r) ==
    /\ req[r].pc = "isLoggedIn"
    /\ req' = [req EXCEPT ![r] = setAuthUserCatch([req[r] EXCEPT !.threw = TRUE])]
    /\ UNCHANGED <<users, sessions, franchises, stores, now, nreq, issued, revoked>>

AddUser_bodyRoles(r) ==
    /\ req[r].pc = "addUser"
    /\ DB_addUser([name |-> req[r].body.name, email |-> req[r].body.email,
                   password |-> req[r].body.password,
                   roles |-> {[role |-> Diner]} \cup req[r].body.roles])
    /\ req' = [req EXCEPT ![r] = Await([@ EXCEPT !.obj = userObject(users', nextUserId)], "sign")]
    /\ UNCHANGED <<sessions, franchises, stores, now, nreq, issued, revoked>>

\* register: `await DB.addUser({name, email, password, roles: [Diner]})`
AddUser(r) ==
    /\ req[r].pc = "addUser"
    /\ DB_addUser([name |-> req[r].body.name, email |-> req[r].body.email,
                   password |-> req[r].body.password, roles |-> {[role |-> Diner]}])
    /\ req' = [req EXCEPT ![r] = Await([@ EXCEPT !.obj = userObject(users', nextUserId)], "sign")]
    /\ UNCHANGED <<sessions, franchises, stores, now, nreq, issued, revoked>>

\* login: `await DB.getUser(email, password)`; a mismatch throws or is null.
GetUser(r) ==
    /\ req[r].pc = "getUser"
    /\ LET found == DB_getUser(req[r].body.email, req[r].body.password)
       IN \/ \E id \in found :
                req' = [req EXCEPT ![r] = Await([@ EXCEPT !.obj = userObject(users, id)], "sign")]
          \/ /\ found = {}
             /\ req' = [req EXCEPT ![r] = Respond(@, 404)]
          \/ /\ found = {}
             /\ req' = [req EXCEPT ![r] = Await([@ EXCEPT !.obj = NullUser], "sign")]
    /\ UNCHANGED <<users, sessions, franchises, stores, now, nreq, issued, revoked>>

\* setAuth, first line: jwt.sign(user, config.jwtSecret); null is no payload.
Sign(r) ==
    /\ req[r].pc = "sign"
    /\ req' = [req EXCEPT ![r] =
                 IF req[r].obj = NullUser
                 THEN Respond(@, 500)
                 ELSE Await([@ EXCEPT !.token = sign(req[r].obj, jwtSecret, now)], "loginUser")]
    /\ UNCHANGED <<users, sessions, franchises, stores, now, nreq, issued, revoked>>

LoginUser_singleSession(r) ==
    /\ req[r].pc = "loginUser"
    /\ sessions' = {t \in sessions : t.payload.id # req[r].obj.id} \cup {req[r].token}
    /\ revoked' = revoked \ {req[r].token}
    /\ issued' = issued \cup {req[r].token}
    /\ req' = [req EXCEPT ![r] = Respond(@, 200)]
    /\ UNCHANGED <<users, franchises, stores, now, nreq>>

\* setAuth, second line: `await DB.loginUser(user.id, token)`, then res.json.
LoginUser(r) ==
    /\ req[r].pc = "loginUser"
    /\ DB_loginUser(req[r].obj.id, req[r].token)
    /\ revoked' = revoked \ {req[r].token}
    /\ issued' = issued \cup {req[r].token}
    /\ req' = [req EXCEPT ![r] = Respond(@, 200)]
    /\ UNCHANGED <<users, franchises, stores, now, nreq>>

\* clearAuth: `await DB.logoutUser(token)`, then res.json.
LogoutUser(r) ==
    /\ req[r].pc = "logoutUser"
    /\ DB_logoutUser(readAuthToken(req[r].header))
    /\ revoked' = revoked \cup {readAuthToken(req[r].header)}
    /\ req' = [req EXCEPT ![r] = Respond(@, 200)]
    /\ UNCHANGED <<users, franchises, stores, now, nreq, issued>>

UpdateUser_bodyRoles(r) ==
    /\ req[r].pc = "updateUser"
    /\ IF req[r].userId \in DOMAIN users
       THEN /\ users' = [users EXCEPT ![req[r].userId] =
                           [@ EXCEPT !.name = IF req[r].body.name # "" THEN req[r].body.name ELSE @,
                                     !.roles = IF req[r].body.roles # {} THEN req[r].body.roles ELSE @]]
            /\ req' = [req EXCEPT ![r] =
                         Await([@ EXCEPT !.obj = userObject(users', req[r].userId)], "sign")]
       ELSE /\ req' = [req EXCEPT ![r] = Respond(@, 404)]
            /\ UNCHANGED users
    /\ UNCHANGED <<sessions, franchises, stores, now, nreq, issued, revoked>>

UpdateUser_signsCaller(r) ==
    /\ req[r].pc = "updateUser"
    /\ IF req[r].userId \in DOMAIN users
       THEN /\ DB_updateUser(req[r].userId, req[r].body.name, req[r].body.email,
                             req[r].body.password)
            /\ req' = [req EXCEPT ![r] =
                         Await([@ EXCEPT !.obj = [req[r].user EXCEPT !.iat = 0]], "sign")]
       ELSE /\ req' = [req EXCEPT ![r] = Respond(@, 404)]
            /\ UNCHANGED users
    /\ UNCHANGED <<sessions, franchises, stores, now, nreq, issued, revoked>>

\* update user: `await DB.updateUser(userId, name, email, password)`
UpdateUser(r) ==
    /\ req[r].pc = "updateUser"
    /\ IF req[r].userId \in DOMAIN users
       THEN /\ DB_updateUser(req[r].userId, req[r].body.name, req[r].body.email,
                             req[r].body.password)
            /\ req' = [req EXCEPT ![r] =
                         Await([@ EXCEPT !.obj = userObject(users', req[r].userId)], "sign")]
       ELSE /\ req' = [req EXCEPT ![r] = Respond(@, 404)]
            /\ UNCHANGED users
    /\ UNCHANGED <<sessions, franchises, stores, now, nreq, issued, revoked>>

\* list a user's franchises: `await DB.getUserFranchises(userId)`
GetUserFranchises(r) ==
    /\ req[r].pc = "getUserFranchises"
    /\ req' = [req EXCEPT ![r] =
                 Respond([@ EXCEPT !.result = DB_getUserFranchises(req[r].userId)], 200)]
    /\ UNCHANGED <<users, sessions, franchises, stores, now, nreq, issued, revoked>>

\* create franchise: `await DB.createFranchise(franchise)`
CreateFranchise(r) ==
    /\ req[r].pc = "createFranchise"
    /\ DB_createFranchise(req[r].body)
    /\ req' = [req EXCEPT ![r] = Respond(@, 200)]
    /\ UNCHANGED <<users, sessions, stores, now, nreq, issued, revoked>>

\* delete franchise: `await DB.deleteFranchise(franchiseId)`
DeleteFranchise(r) ==
    /\ req[r].pc = "deleteFranchise"
    /\ DB_deleteFranchise(req[r].franchiseId)
    /\ req' = [req EXCEPT ![r] = Respond(@, 200)]
    /\ UNCHANGED <<users, sessions, now, nreq, issued, revoked>>

GetFranchise_mutateFirst(r) ==
    /\ req[r].pc = "getFranchise"
    /\ stores' = IF req[r].route = "deleteStore"
                 THEN {s \in stores : ~(s.franchiseId = req[r].franchiseId
                                          /\ s.id = req[r].storeId)}
                 ELSE stores
    /\ LET franchise == DB_getFranchise(req[r].franchiseId)
       IN req' = [req EXCEPT ![r] =
                    IF storeDenied(req[r].user, franchise)
                    THEN Respond(@, 403)
                    ELSE Await([@ EXCEPT !.franchise = franchise], req[r].route)]
    /\ UNCHANGED <<users, sessions, franchises, now, nreq, issued, revoked>>

\* both store handlers: `await DB.getFranchise({id})` and the 403 check.
GetFranchise(r) ==
    /\ req[r].pc = "getFranchise"
    /\ LET franchise == DB_getFranchise(req[r].franchiseId)
       IN req' = [req EXCEPT ![r] =
                    IF storeDenied(req[r].user, franchise)
                    THEN Respond(@, 403)
                    ELSE Await([@ EXCEPT !.franchise = franchise], req[r].route)]
    /\ UNCHANGED <<users, sessions, franchises, stores, now, nreq, issued, revoked>>

\* create store: `await DB.createStore(franchise.id, req.body)`
CreateStore(r) ==
    /\ req[r].pc = "createStore"
    /\ DB_createStore(req[r].franchise.id, req[r].body)
    /\ req' = [req EXCEPT ![r] = Respond(@, 200)]
    /\ UNCHANGED <<users, sessions, franchises, now, nreq, issued, revoked>>

\* delete store: `await DB.deleteStore(franchiseId, storeId)`
DeleteStore(r) ==
    /\ req[r].pc = "deleteStore"
    /\ DB_deleteStore(req[r].franchiseId, req[r].storeId)
    /\ req' = [req EXCEPT ![r] = Respond(@, 200)]
    /\ UNCHANGED <<users, sessions, franchises, now, nreq, issued, revoked>>

\* A second passes.
Tick ==
    /\ now < MaxTime
    /\ now' = now + 1
    /\ UNCHANGED <<users, sessions, franchises, stores, req, nreq, issued, revoked>>

\* The steps of setAuth, shared by register, login and update user.
SetAuth ==
    \/ \E r \in Reqs : Sign(r)
    \/ \E r \in Reqs : LoginUser(r)

\* Login, logout and an authenticated read.
NextSession ==
    \/ Tick
    \/ \E r \in Reqs : StartLogin(r)
    \/ \E r \in Reqs : StartLogout(r)
    \/ \E r \in Reqs : StartGetMe(r, Headers)
    \/ \E r \in Reqs : IsLoggedIn(r)
    \/ \E r \in Reqs : IsLoggedInThrows(r)
    \/ \E r \in Reqs : GetUser(r)
    \/ \E r \in Reqs : LogoutUser(r)
    \/ SetAuth

\* Register and update user, with logout and an authenticated read.
NextUser ==
    \/ Tick
    \/ \E r \in Reqs : StartRegister(r)
    \/ \E r \in Reqs : StartUpdateUser(r)
    \/ \E r \in Reqs : StartLogout(r)
    \/ \E r \in Reqs : StartGetMe(r, AuthHeaders)
    \/ \E r \in Reqs : IsLoggedIn(r)
    \/ \E r \in Reqs : AddUser(r)
    \/ \E r \in Reqs : UpdateUser(r)
    \/ \E r \in Reqs : LogoutUser(r)
    \/ SetAuth

\* The franchise router.
NextFranchise ==
    \/ \E r \in Reqs : StartGetUserFranchises(r)
    \/ \E r \in Reqs : StartCreateFranchise(r)
    \/ \E r \in Reqs : StartDeleteFranchise(r)
    \/ \E r \in Reqs : StartCreateStore(r)
    \/ \E r \in Reqs : StartDeleteStore(r)
    \/ \E r \in Reqs : IsLoggedIn(r)
    \/ \E r \in Reqs : GetUserFranchises(r)
    \/ \E r \in Reqs : CreateFranchise(r)
    \/ \E r \in Reqs : DeleteFranchise(r)
    \/ \E r \in Reqs : GetFranchise(r)
    \/ \E r \in Reqs : CreateStore(r)
    \/ \E r \in Reqs : DeleteStore(r)

\* The whole service.
Next == NextSession \/ NextUser \/ NextFranchise

Spec == Init /\ [][Next]_vars

SpecSession == Init /\ [][NextSession]_vars

SpecUser == Init /\ [][NextUser]_vars

SpecFranchise == Init /\ [][NextFranchise]_vars

\* Logout against the guarded requests that write to the store.
NextRevocation ==
    \/ \E r \in Reqs : StartLogout(r)
    \/ \E r \in Reqs : StartUpdateUser(r)
    \/ \E r \in Reqs : StartCreateFranchise(r)
    \/ \E r \in Reqs : StartCreateStore(r)
    \/ \E r \in Reqs : StartDeleteStore(r)
    \/ \E r \in Reqs : IsLoggedIn(r)
    \/ \E r \in Reqs : LogoutUser(r)
    \/ \E r \in Reqs : UpdateUser(r)
    \/ SetAuth
    \/ \E r \in Reqs : CreateFranchise(r)
    \/ \E r \in Reqs : GetFranchise(r)
    \/ \E r \in Reqs : CreateStore(r)
    \/ \E r \in Reqs : DeleteStore(r)

SpecRevocation == Init /\ [][NextRevocation]_vars

\* The whole service, one request at a time.
NextSerial == Next /\ req'["r2"] = req["r2"]

SpecSerial == Init /\ [][NextSerial]_vars

\* Login, logout and reads, where every DB.isLoggedIn promise settles.
SpecSessionFair ==
    SpecSession /\ \A r \in Reqs : WF_vars(IsLoggedIn(r) \/ IsLoggedInThrows(r))

\* ---------------------------------------------------------------- claims
\* The step in which setAuthUser of request r gets the answer of DB.isLoggedIn.
Checked(r) == req[r].pc = "isLoggedIn" /\ req'[r].pc # "isLoggedIn"

\* The step in which a request arrives in slot r.
Arrived(r) == req[r].pc \in {"idle", "done"} /\ req'[r] # req[r]

\* The routes that authenticateToken guards.
Guarded ==
    {"logout", "getMe", "updateUser", "getUserFranchises", "createFranchise",
     "createStore", "deleteStore"}

Bearer(t) == <<Word("Bearer"), t>>

\* The step of request r in which setAuthUser calls next(): its arrival when
\* it carries no token, the answer of DB.isLoggedIn otherwise.
Routed(r) == (Arrived(r) /\ req'[r].pc # "isLoggedIn") \/ Checked(r)

\* The four collections of the store.
db == <<users, sessions, franchises, stores>>

\* C1: setAuthUser sets req.user only from a token that verifies under the
\* secret and that DB.isLoggedIn finds active when it is asked; a request is
\* Anonymous until then, and stays Anonymous when either condition fails.
C1_HonoredOnlyIfVerifiedAndActive ==
    [][\A r \in Reqs :
        LET t == readAuthToken(req[r].header)
        IN /\ Checked(r) =>
                /\ req'[r].user # NullUser =>
                      verifies(t, jwtSecret) /\ t \in sessions /\ req'[r].user = t.payload
                /\ ~(verifies(t, jwtSecret) /\ t \in sessions) => req'[r].user = NullUser
           /\ ~Checked(r) => req'[r].user \in {NullUser, req[r].user}]_vars

\* C1 witness: one request is authenticated, another one presented a token
\* that verifies but has no Session Record and was answered 401.
C1_Witness ==
    \E r1, r2 \in Reqs :
        /\ req[r1].pc = "done" /\ req[r1].user # NullUser
        /\ req[r2].pc = "done" /\ req[r2].route = "getMe" /\ req[r2].status = 401
        /\ verifies(readAuthToken(req[r2].header), jwtSecret)
        /\ readAuthToken(req[r2].header) \notin sessions

\* A second witness of C1: a token with a Session Record that does not verify
\* was answered 401.
C1_WitnessStale ==
    \E r \in Reqs :
        /\ req[r].pc = "done" /\ req[r].status = 401 /\ req[r].user = NullUser
        /\ readAuthToken(req[r].header) \in sessions
        /\ ~verifies(readAuthToken(req[r].header), jwtSecret)

\* C2: while token T is logged out (DB.logoutUser(T) done, T not recorded
\* again since), a request whose setAuthUser checks T is Anonymous, and is
\* answered 401 on every route that authenticateToken guards.
C2_LoggedOutTokenIsAnonymous ==
    [][\A r \in Reqs :
        (Checked(r) /\ readAuthToken(req[r].header) \in revoked) =>
            /\ req'[r].user = NullUser
            /\ req[r].route \in Guarded =>
                  req'[r].pc = "done" /\ req'[r].status = 401]_vars

\* C2 witness: a guarded request that presented a logged-out token, which
\* still verifies, got 401.
C2_Witness ==
    \E r \in Reqs :
        /\ req[r].pc = "done" /\ req[r].route \in Guarded /\ req[r].status = 401
        /\ readAuthToken(req[r].header) \in revoked
        /\ verifies(readAuthToken(req[r].header), jwtSecret)

\* C3: two logins for the same user produce two distinct tokens (and so two
\* independent Session Records).
C3_TwoLoginsTwoTokens ==
    \A r1, r2 \in Reqs :
        (/\ r1 # r2
         /\ req[r1].route = "login" /\ req[r1].pc = "done" /\ req[r1].status = 200
         /\ req[r2].route = "login" /\ req[r2].pc = "done" /\ req[r2].status = 200
         /\ req[r1].token.payload.id = req[r2].token.payload.id)
            => req[r1].token # req[r2].token

\* C4, as claimed: a logout with no token, or with a token whose Session
\* Record is already destroyed, does not produce an error response.
C4_SecondLogoutNoError ==
    \A r \in Reqs :
        (/\ req[r].route = "logout" /\ req[r].pc = "done"
         /\ \/ readAuthToken(req[r].header) = NoToken
            \/ readAuthToken(req[r].header) \in revoked)
            => req[r].status = 200

\* C4, amended: a logout with no token, or with a token that has no Session
\* Record when setAuthUser checks it, leaves the session store as it is and
\* is answered 401 by authenticateToken; clearAuth is not reached.
C4_SecondLogoutIs401NoOp ==
    [][\A r \in Reqs :
        /\ (/\ Checked(r) /\ req[r].route = "logout"
            /\ readAuthToken(req[r].header) \notin sessions)
              => req'[r].pc = "done" /\ req'[r].status = 401 /\ sessions' = sessions
        /\ (/\ Arrived(r) /\ req'[r].route = "logout"
            /\ readAuthToken(req'[r].header) = NoToken)
              => req'[r].pc = "done" /\ req'[r].status = 401 /\ sessions' = sessions]_vars

\* C4 witness: a second logout with a token already logged out got 401.
C4_Witness ==
    \E r \in Reqs :
        /\ req[r].route = "logout" /\ req[r].pc = "done" /\ req[r].status = 401
        /\ readAuthToken(req[r].header) \in revoked

\* The DB calls that change a resource.
Mutations ==
    {"createFranchise", "deleteFranchise", "createStore", "deleteStore", "updateUser"}

\* C5: no resource mutation is performed for a request whose identity is
\* Anonymous.
C5_NoMutationForAnonymous ==
    \A r \in Reqs : req[r].pc \in Mutations => req[r].user # NullUser

C6_WitnessDenied ==
    \E r \in Reqs :
        /\ req[r].pc = "done" /\ req[r].status = 403
        /\ req[r].route \in {"createStore", "deleteStore"}
        /\ req[r].franchiseId \in DOMAIN franchises
        /\ req[r].user # NullUser
        /\ req[r].user.id \notin franchises[req[r].franchiseId].admins

\* C7: when DB.getFranchise returns null, both store handlers answer 403,
\* for an Admin too, and neither DB.createStore nor DB.deleteStore is called
\* (no request waits on them with a null franchise).
C7_NullFranchiseIs403 ==
    [][\A r \in Reqs :
        /\ (/\ req[r].pc = "getFranchise" /\ req'[r].pc # "getFranchise"
            /\ req[r].franchiseId \notin DOMAIN franchises)
              => /\ req'[r].pc = "done" /\ req'[r].status = 403
                 /\ stores' = stores
        /\ req'[r].pc \in {"createStore", "deleteStore"}
              => req'[r].franchise # NullFranchise]_vars

\* C7 witness: an Admin asked for a store on a franchise that does not exist
\* and got 403.
C7_Witness ==
    \E r \in Reqs :
        /\ req[r].pc = "done" /\ req[r].status = 403
        /\ req[r].route \in {"createStore", "deleteStore"}
        /\ isRole(req[r].user, Admin)
        /\ req[r].franchiseId \notin DOMAIN franchises

C9_UpdateKeepsSessions ==
    [][\A r \in Reqs :
        (/\ req[r].route = "updateUser" /\ req'[r] # req[r]
         /\ req[r].pc \notin {"idle", "done"}) =>
            /\ sessions \subseteq sessions'
            /\ req[r].pc = "loginUser" =>
                  /\ sessions' = sessions \cup {req[r].token}
                  /\ req'[r].status = 200]_vars

\* C9 witness: an update is answered 200 and both the token it was made with
\* and the different token it issued have a Session Record.
C9_Witness ==
    \E r \in Reqs :
        /\ req[r].route = "updateUser" /\ req[r].pc = "done" /\ req[r].status = 200
        /\ req[r].token # readAuthToken(req[r].header)
        /\ req[r].token \in sessions
        /\ readAuthToken(req[r].header) \in sessions

\* C10: register with name, email and password creates a user whose roles
\* are exactly {Diner}, whatever the body holds, and records a Session
\* Record for the token it returns; a request that presents this token while
\* it is active (and the store answers) is that user, a Diner and not an Admin.
C10_RegisterIsDiner ==
    [][\A r \in Reqs :
        /\ (req[r].pc = "addUser" /\ req'[r].pc # "addUser") =>
              \E id \in DOMAIN users' \ DOMAIN users :
                  /\ users'[id].roles = {[role |-> Diner]}
                  /\ users'[id].name = req[r].body.name
                  /\ req'[r].obj.id = id
                  /\ req'[r].obj.roles = {[role |-> Diner]}
        /\ (req[r].route = "register" /\ req[r].pc = "loginUser"
                /\ req'[r].pc # "loginUser") =>
              /\ req'[r].status = 200
              /\ req[r].token \in sessions'
              /\ req[r].token.payload.id = req[r].obj.id
        /\ \A q \in Reqs :
              (/\ req[q].route = "register" /\ req[q].pc = "done" /\ req[q].status = 200
               /\ Checked(r) /\ req[r].header = Bearer(req[q].token)
               /\ req[q].token \in sessions /\ ~req'[r].threw) =>
                  /\ req'[r].user.id = req[q].obj.id
                  /\ isRole(req'[r].user, Diner)
                  /\ ~isRole(req'[r].user, Admin)]_vars

\* C10 witness: a register whose body also asked for the admin role is
\* answered 200, and a request with the returned token is authenticated as
\* the new user.
C10_Witness ==
    \E q, r \in Reqs :
        /\ req[q].route = "register" /\ req[q].pc = "done" /\ req[q].status = 200
        /\ req[q].body.roles # {}
        /\ req[r].route = "getMe" /\ req[r].pc = "done" /\ req[r].status = 200
        /\ req[r].header = Bearer(req[q].token)
        /\ req[r].user.id = req[q].obj.id
        /\ isRole(req[r].user, Diner)

\* C11: a register request whose body lacks name, email or password (or
\* holds an empty one) is answered 400 by the handler itself: the request
\* never reaches DB.addUser or setAuth, so no user and no Session Record
\* appear.
C11_RegisterIncompleteIs400 ==
    [][\A r \in Reqs :
         LET incomplete(b) == b.name = "" \/ b.email = "" \/ b.password = ""
         IN /\ (Routed(r) /\ req'[r].route = "register"
                   /\ incomplete(req'[r].body)) =>
                  /\ req'[r].pc = "done" /\ req'[r].status = 400
                  /\ req'[r].token = NoToken
                  /\ users' = users /\ sessions' = sessions
            /\ (req'[r].route = "register"
                   /\ req'[r].pc \in {"addUser", "sign", "loginUser"}) =>
                  ~incomplete(req'[r].body)]_vars

C11_Witness ==
    \E r \in Reqs :
        /\ req[r].route = "register" /\ req[r].pc = "done"
        /\ req[r].status = 400 /\ req[r].body.password = ""
        /\ req[r].body.name # "" /\ req[r].body.email # ""
        /\ users = InitUsers /\ sessions = InitTokens \cup {StaleToken}

\* C12: a login whose email and password match no user fails with
\* InvalidCredentials, an error that carries its own status code, and creates
\* no Session Record: whether DB.getUser rejects or answers null,
\* DB.loginUser is never reached, no token is signed or returned, and the
\* session store is as it was.
C12_FailedLoginIsInvalidCredentials ==
    [][\A r \in Reqs :
         /\ (req[r].pc = "getUser" /\ req'[r] # req[r]
                /\ DB_getUser(req[r].body.email, req[r].body.password) = {}) =>
               /\ sessions' = sessions /\ issued' = issued
               /\ req'[r].token = NoToken
               /\ \/ req'[r].pc = "done" /\ req'[r].status \in 400..499
                  \/ req'[r].pc = "sign" /\ req'[r].obj = NullUser
         /\ (req[r].pc = "sign" /\ req'[r] # req[r] /\ req[r].obj = NullUser) =>
               /\ sessions' = sessions /\ issued' = issued
               /\ req'[r].token = NoToken
               /\ req'[r].pc = "done" /\ req'[r].status \in 400..499
         /\ req'[r].pc = "loginUser" => req'[r].obj # NullUser]_vars

\* C13: a request whose Authorization header is absent, or is not of the
\* form `Bearer <token>` (a bare token, or another scheme word followed by
\* an active token), is Anonymous and is not failed for it: readAuthToken
\* hands setAuthUser a token only when the header starts with `Bearer`.
C13_OnlyBearerIsUsable ==
    \A r \in Reqs :
        LET bearer == Len(req[r].header) = 2 /\ req[r].header[1] = Word("Bearer")
        IN /\ req[r].pc = "isLoggedIn" => bearer
           /\ (req[r].pc \notin {"idle", "isLoggedIn"} /\ ~bearer) =>
                 req[r].user = NullUser /\ req[r].nexts = 1

\* C14: setAuthUser never fails a request. Whatever the header, and whether
\* DB.isLoggedIn answers false, DB.isLoggedIn rejects or jwt.verify throws,
\* the request goes on as Anonymous; next() is called once and only once,
\* and every request that waits for DB.isLoggedIn eventually gets there.
C14_SetAuthUserNeverFails ==
    /\ [](\A r \in Reqs :
            /\ req[r].pc \in {"idle", "isLoggedIn"} => req[r].nexts = 0
            /\ req[r].pc \notin {"idle", "isLoggedIn"} => req[r].nexts = 1)
    /\ [][\A r \in Reqs :
            LET token == readAuthToken(req[r].header)
            IN (Checked(r) /\ (\/ ~DB_isLoggedIn(token)
                               \/ req'[r].threw
                               \/ ~verifies(token, jwtSecret))) =>
                  /\ req'[r].user = NullUser
                  /\ req'[r] = Route([req[r] EXCEPT !.nexts = 1,
                                                    !.threw = req'[r].threw])]_vars
    /\ \A r \in Reqs : (req[r].pc = "isLoggedIn") ~> (req[r].nexts = 1)

C14_Witness ==
    \E r \in Reqs :
        /\ req[r].pc = "done" /\ req[r].threw /\ req[r].nexts = 1
        /\ req[r].user = NullUser /\ req[r].status = 401
        /\ readAuthToken(req[r].header) \in sessions
        /\ verifies(readAuthToken(req[r].header), jwtSecret)

C14_WitnessVerifyThrows ==
    \E r \in Reqs :
        /\ req[r].pc = "done" /\ ~req[r].threw /\ req[r].nexts = 1
        /\ req[r].user = NullUser /\ req[r].status = 401
        /\ req[r].header = Bearer(StaleToken) /\ StaleToken \in sessions

\* The statuses of a denial: 400 of register, 401 of authenticateToken, 403
\* of update user, create franchise, create store and delete store.
Denials == {400, 401, 403}

\* C15: a request that is answered with a denial has changed nothing: the
\* step that answers 400, 401 or 403 leaves users, sessions, franchises and
\* stores as they are, and so does every earlier step of that request (its
\* arrival, the DB.isLoggedIn check, the DB.getFranchise lookup).
C15_DenialChangesNothing ==
    [][\A r \in Reqs :
         /\ (req'[r] # req[r] /\ req'[r].pc = "done"
                /\ req'[r].status \in Denials) =>
               /\ UNCHANGED db
               /\ req[r].pc \in {"idle", "done", "isLoggedIn", "getFranchise"}
         /\ (req'[r] # req[r]
                /\ req[r].pc \in {"idle", "done", "isLoggedIn", "getFranchise"}) =>
               UNCHANGED db]_vars

C15_Witness ==
    \E r \in Reqs :
        /\ req[r].route = "deleteStore" /\ req[r].pc = "done"
        /\ req[r].status = 403 /\ req[r].user # NullUser
        /\ [franchiseId |-> req[r].franchiseId, id |-> req[r].storeId] \in stores
        /\ nreq = 2

\* C16: only an Admin creates a franchise. An authenticated requester who is
\* not an Admin (a Diner, or a Franchisee, also one whose email is among the
\* admins of the requested franchise) is answered 403 and DB.createFranchise
\* is not called; the call is reached by Admin requesters only.
C16_CreateFranchiseAdminOnly ==
    [][\A r \in Reqs :
         /\ (Routed(r) /\ req'[r].route = "createFranchise"
                /\ req'[r].user # NullUser) =>
               IF isRole(req'[r].user, Admin)
               THEN req'[r].pc = "createFranchise" /\ franchises' = franchises
               ELSE /\ req'[r].pc = "done" /\ req'[r].status = 403
                    /\ franchises' = franchises
         /\ req'[r].pc = "createFranchise" => isRole(req'[r].user, Admin)
         /\ franchises' # franchises /\ req'[r] # req[r]
               /\ req[r].route = "createFranchise" =>
               isRole(req[r].user, Admin)]_vars

C16_Witness ==
    \E r \in Reqs :
        /\ req[r].route = "createFranchise" /\ req[r].pc = "done"
        /\ req[r].status = 403 /\ req[r].user # NullUser
        /\ isRole(req[r].user, Franchisee)
        /\ req[r].user.email \in req[r].body.admins
        /\ DOMAIN franchises = {1}

C16_WitnessAdmin ==
    \E r \in Reqs :
        /\ req[r].route = "createFranchise" /\ req[r].pc = "done"
        /\ req[r].status = 200 /\ isRole(req[r].user, Admin)
        /\ DOMAIN franchises # {1}

C17_WitnessOwn ==
    \E r \in Reqs :
        /\ req[r].route = "getUserFranchises" /\ req[r].pc = "done"
        /\ ~isRole(req[r].user, Admin) /\ req[r].user.id = req[r].userId
        /\ req[r].result # {}

\* The guarded routes that write to the store.
GuardedWrites == {"updateUser", "createFranchise", "createStore", "deleteStore"}

\* The step of request r that writes to the store for a guarded route: the
\* route's own DB call, or DB.loginUser of update user.
Writes(r) ==
    /\ req'[r] # req[r]
    /\ \/ req[r].pc \in GuardedWrites
       \/ req[r].pc = "loginUser" /\ req[r].route = "updateUser"

\* C18 as stated: however a logout of token T interleaves with the requests
\* in flight that present T, no DB.updateUser, DB.createFranchise,
\* DB.createStore or DB.deleteStore, and no new Session Record, takes effect
\* for T once the logout of T has completed.
C18_NoWriteAfterLogout ==
    [][\A r \in Reqs :
         Writes(r) => readAuthToken(req[r].header) \notin revoked]_vars

\* C18, amended: a request that presents T and whose setAuthUser check finds
\* the Session Record of T destroyed writes nothing; every write of a guarded
\* route is made by a request that passed that check as the user of T, and
\* such a request may still write after a logout of T has completed.
C18_NoWriteForTokenFoundRevoked ==
    [][\A r \in Reqs :
         LET token == readAuthToken(req[r].header)
         IN /\ (Checked(r) /\ token \notin sessions
                   /\ req[r].route \in GuardedWrites) =>
                  /\ req'[r].pc = "done" /\ req'[r].status = 401
                  /\ UNCHANGED db
            /\ Writes(r) =>
                  /\ req[r].user # NullUser /\ req[r].user = token.payload
                  /\ verifies(token, jwtSecret)]_vars

C18_Witness ==
    \E r, q \in Reqs :
        /\ req[r].route \in GuardedWrites
        /\ req[r].pc \in GuardedWrites \cup {"loginUser"}
        /\ req[r].user # NullUser
        /\ req[q].route = "logout" /\ req[q].pc = "done" /\ req[q].status = 200
        /\ req[q].header = req[r].header
        /\ readAuthToken(req[r].header) \in revoked

\* C19: no privilege escalation. Register, login, logout and update user
\* give the Admin role to nobody who does not hold it: no user row gains
\* Admin (register stores the roles {Diner}, update user hands the store
\* name, email and password and leaves roles alone), a token whose identity
\* has Admin is signed only for a caller who supplied an Admin's credentials
\* or already is an Admin, and a request is an Admin only by such a token.
C19_NoPrivilegeEscalation ==
    [][/\ \A id \in DOMAIN users' :
            isRole(users'[id], Admin) =>
                id \in DOMAIN users /\ isRole(users[id], Admin)
       /\ \A r \in Reqs :
            /\ (req[r].pc = "addUser" /\ req'[r] # req[r]) =>
                  /\ req'[r].obj.roles = {[role |-> Diner]}
                  /\ users'[req'[r].obj.id].roles = {[role |-> Diner]}
            /\ (req[r].pc = "updateUser" /\ req'[r] # req[r]
                   /\ req[r].userId \in DOMAIN users) =>
                  users'[req[r].userId].roles = users[req[r].userId].roles
            /\ (req[r].pc = "getUser" /\ req'[r].pc = "sign"
                   /\ isRole(req'[r].obj, Admin)) =>
                  \E id \in DB_getUser(req[r].body.email, req[r].body.password) :
                      isRole(users[id], Admin) /\ req'[r].obj.id = id
            /\ (req[r].pc = "sign" /\ req'[r].pc = "loginUser") =>
                  /\ req'[r].token.payload.roles = req[r].obj.roles
                  /\ isRole(req[r].obj, Admin) =>
                        \/ req[r].route = "login"
                        \/ /\ req[r].route = "updateUser"
                           /\ isRole(req[r].user, Admin)
            /\ (Checked(r) /\ isRole(req'[r].user, Admin)) =>
                  LET token == readAuthToken(req[r].header)
                  IN /\ token \in sessions /\ verifies(token, jwtSecret)
                     /\ req'[r].user = token.payload]_vars

C19_Witness ==
    \E r \in Reqs :
        /\ req[r].route = "updateUser" /\ req[r].pc = "done" /\ req[r].status = 200
        /\ ~isRole(req[r].user, Admin)
        /\ req[r].body.roles = {[role |-> Admin]}
        /\ ~isRole(req[r].token.payload, Admin) /\ req[r].token \in sessions
        /\ ~isRole(users[req[r].userId], Admin)
        /\ users[req[r].userId].name = req[r].body.name

\* C20: token-to-identity binding. The token that update user returns is the
\* token of the user whose id is the userId path parameter, not of the
\* caller; and a caller who is not an Admin only ever receives a token of
\* the account it registered, of the account whose credentials it supplied,
\* or of its own id.
C20_TokenIdentityBinding ==
    \A r \in Reqs :
        (\/ req[r].pc = "loginUser"
         \/ req[r].pc = "done" /\ req[r].status = 200 /\ req[r].token # NoToken) =>
            LET id == req[r].token.payload
            IN /\ verifies(req[r].token, jwtSecret)
               /\ req[r].route = "updateUser" =>
                     /\ id.id = req[r].userId
                     /\ ~isRole(req[r].user, Admin) => id.id = req[r].user.id
               /\ req[r].route = "login" =>
                     /\ id.email = req[r].body.email
                     /\ id.id = req[r].obj.id
               /\ req[r].route = "register" =>
                     /\ id.email = req[r].body.email /\ id.name = req[r].body.name
                     /\ id.id = req[r].obj.id /\ id.id \notin DOMAIN InitUsers
               /\ req[r].route \in {"updateUser", "login", "register"}

C20_Witness ==
    \E r \in Reqs :
        /\ req[r].route = "updateUser" /\ req[r].pc = "done" /\ req[r].status = 200
        /\ isRole(req[r].user, Admin) /\ req[r].user.id # req[r].userId
        /\ req[r].token.payload.id = req[r].userId
        /\ req[r].token \in sessions

C20_WitnessOwn ==
    \E r \in Reqs :
        /\ req[r].route = "updateUser" /\ req[r].pc = "done" /\ req[r].status = 200
        /\ ~isRole(req[r].user, Admin)
        /\ req[r].token.payload.id = req[r].user.id

====
